---- MODULE Spec2Model ----
(***************************************************************************)
(* Model of utils/generation.py: histogram building, frequency             *)
(* normalisation, power-curve generation, frequency-based energy           *)
(* aggregation, time-series energy evaluation and the per-node rated-speed *)
(* search.                                                                 *)
(*                                                                         *)
(* Numbers.  The program computes in IEEE doubles; the model computes in   *)
(* exact arithmetic over integers.  A speed is an integer number of speed  *)
(* units (the unit is 0.1 m/s in the constant-velocity scenario), a power  *)
(* is Coef * speed^3 where Coef stands for 0.5 * cp * swept_area * density *)
(* in the matching unit, and a quotient is kept as the pair of its         *)
(* numerator and denominator (Quot), with the IEEE outcomes nan and inf    *)
(* for a zero denominator.                                                 *)
(***************************************************************************)
EXTENDS Integers, Sequences, FiniteSets, TLC

VARIABLES
    pc,                     \* position of the running call
    args,                   \* the arguments of the running call
    error,                  \* the exception the call ended in, or "none"
    rated_speed_vector,     \* generation.py:105 / :145
    cumulated_power,        \* generation.py:106 (and :79 in the frequency form)
    ideal_cumulated_power,  \* generation.py:107
    capacity_factor,        \* generation.py:128
    optimal_rs,             \* generation.py:146
    optimal_power,          \* generation.py:147
    minimum_ci_vector,      \* generation.py:49
    maximum_co_vector,      \* generation.py:50-51
    power_curves,           \* generation.py:54, :65
    bins,                   \* generation.py:15
    histograms,             \* generation.py:16-20
    frequencies             \* generation.py:31

vars == <<pc, args, error, rated_speed_vector, cumulated_power,
          ideal_cumulated_power, capacity_factor, optimal_rs, optimal_power,
          minimum_ci_vector, maximum_co_vector, power_curves,
          bins, histograms, frequencies>>

\* what the time-series functions never touch
frequencyVars == <<minimum_ci_vector, maximum_co_vector, power_curves,
                   bins, histograms, frequencies>>

\* what the histogram and power-curve functions never touch
seriesVars == <<rated_speed_vector, ideal_cumulated_power, capacity_factor,
                optimal_rs, optimal_power>>

-----------------------------------------------------------------------------
(* Bounds of the model *)

MaxSpeed == 3
MaxSamples == 2

(* Program constants *)

CutInNum == 3
CutInDen == 10

-----------------------------------------------------------------------------
(* Arithmetic helpers *)

Max2(a, b) == IF a >= b THEN a ELSE b

\* ceil(a / b) for b > 0
CeilDiv(a, b) == -((-a) \div b)

Cube(v) == v * v * v

RECURSIVE SumSeq(_)
SumSeq(s) == IF s = <<>> THEN 0 ELSE Head(s) + SumSeq(Tail(s))

\* IEEE double division as numpy performs it on arrays: no exception, a zero
\* denominator gives nan (0/0) or a signed infinity.
Quot(a, b) ==
    IF b # 0 THEN [kind |-> "num", num |-> a, den |-> b]
    ELSE IF a = 0 THEN [kind |-> "nan", num |-> 0, den |-> 0]
    ELSE IF a > 0 THEN [kind |-> "inf", num |-> 1, den |-> 0]
    ELSE [kind |-> "inf", num |-> -1, den |-> 0]

\* numpy.arange(start, stop, step) for step # 0: ceil((stop - start) / step)
\* values start, start + step, ...
ArangeLen(start, stop, step) ==
    IF step > 0 THEN Max2(0, CeilDiv(stop - start, step))
    ELSE Max2(0, CeilDiv(start - stop, -step))

\* numpy.arange with step = 0 raises; which exception depends on the numpy
\* release and on the argument types
ZeroStepErrors == {"ValueError", "ZeroDivisionError"}

Arange(start, stop, step) ==
    [i \in 1..ArangeLen(start, stop, step) |-> start + (i - 1) * step]

-----------------------------------------------------------------------------
(* The three-region rule of the time-series form, cut-in 0.3 * rated_speed *)

\* mutant: a sample exactly at the cut-in speed produces nothing
SamplePowerStrictCutIn(coef, v, rated_speed) ==
    IF CutInDen * v <= CutInNum * rated_speed THEN 0
    ELSE IF v < rated_speed THEN coef * Cube(v)
    ELSE coef * Cube(rated_speed)

\* mutant: no saturation at the rated speed
SamplePowerNoSaturation(coef, v, rated_speed) ==
    IF CutInDen * v < CutInNum * rated_speed THEN 0
    ELSE coef * Cube(v)

SamplePower(coef, v, rated_speed) ==
    IF CutInDen * v < CutInNum * rated_speed THEN 0
    ELSE IF CutInNum * rated_speed <= CutInDen * v /\ v < rated_speed
         THEN coef * Cube(v)
    ELSE coef * Cube(rated_speed)

\* the loop over the samples of one node (generation.py:114-121, :152-158)
RECURSIVE NodePower(_, _, _)
NodePower(coef, series, rated_speed) ==
    IF series = <<>> THEN 0
    ELSE SamplePower(coef, Head(series), rated_speed)
         + NodePower(coef, Tail(series), rated_speed)

RECURSIVE NodeIdealPower(_, _, _)
NodeIdealPower(coef, series, rated_speed) ==
    IF series = <<>> THEN 0
    ELSE coef * Cube(rated_speed) + NodeIdealPower(coef, Tail(series), rated_speed)

PowerPerNode(a, rated_speed) ==
    [n \in 1..Len(a.filtered_nodes) |->
        NodePower(a.coef, a.filtered_nodes[n], rated_speed)]

IdealPowerPerNode(a, rated_speed) ==
    [n \in 1..Len(a.filtered_nodes) |->
        NodeIdealPower(a.coef, a.filtered_nodes[n], rated_speed)]

\* numpy.max / numpy.argmax of a non-empty array: the first index of the maximum
ArrayMax(s) == CHOOSE m \in {s[i] : i \in 1..Len(s)} : \A i \in 1..Len(s) : s[i] <= m

\* mutant: the last index of the maximum
ArgMaxLast(s) == CHOOSE i \in 1..Len(s) :
                    /\ \A j \in 1..Len(s) : s[j] <= s[i]
                    /\ \A j \in (i + 1)..Len(s) : s[j] # s[i]

ArgMax(s) == CHOOSE i \in 1..Len(s) :
                /\ s[i] = ArrayMax(s)
                /\ \A j \in 1..(i - 1) : s[j] # ArrayMax(s)

PowerPerRs(a, rsv, n) ==
    [r \in 1..Len(rsv) |-> NodePower(a.coef, a.filtered_nodes[n], rsv[r])]

-----------------------------------------------------------------------------
(* Inputs of the time-series functions *)

Speeds == 0..MaxSpeed

NonDecreasing(s) == \A i \in 1..(Len(s) - 1) : s[i] <= s[i + 1]

\* The series of one node.  Every function of this module adds up one term per
\* sample, so the order of the samples within a node does not change any
\* result; the model draws one representative of each multiset of samples.
NodeSeries(values, len) == {s \in [1..len -> values] : NonDecreasing(s)}

\* a data frame: one or two columns (nodes) of one common length
Frames(values) ==
    UNION {[1..n -> NodeSeries(values, len)] : n \in {1, 2}, len \in 0..MaxSamples}

\* candidate rated speeds: the sample speeds, and the speed whose cut-in
\* (0.3 * rated speed) is itself a sample speed
RatedSpeeds == Speeds \cup {CutInDen}

SeriesArgs ==
    [filtered_nodes : Frames(Speeds),
     min_rated_speed : RatedSpeeds,
     max_rated_speed : RatedSpeeds,
     delta : {-1, 0, 1, 2},
     coef : {2}]

-----------------------------------------------------------------------------
(* cumulate_power_time_series *)

CumulateStart ==
    /\ UNCHANGED frequencyVars
    /\ pc = "start"
    /\ IF args.delta = 0
       THEN /\ pc' = "cumulate_raised"
            /\ error' \in ZeroStepErrors
            /\ UNCHANGED rated_speed_vector
       ELSE /\ pc' = "cumulate_loop"
            /\ rated_speed_vector' = Arange(args.min_rated_speed,
                                            args.max_rated_speed + args.delta,
                                            args.delta)
            /\ UNCHANGED error
    /\ UNCHANGED <<args, cumulated_power, ideal_cumulated_power, capacity_factor,
                   optimal_rs, optimal_power>>

CumulateStep ==
    /\ UNCHANGED frequencyVars
    /\ pc = "cumulate_loop"
    /\ Len(cumulated_power) < Len(rated_speed_vector)
    /\ LET rated_speed == rated_speed_vector[Len(cumulated_power) + 1] IN
         /\ cumulated_power' =
                Append(cumulated_power, SumSeq(PowerPerNode(args, rated_speed)))
         /\ ideal_cumulated_power' =
                Append(ideal_cumulated_power,
                       SumSeq(IdealPowerPerNode(args, rated_speed)))
    /\ UNCHANGED <<pc, args, error, rated_speed_vector, capacity_factor,
                   optimal_rs, optimal_power>>

CumulateReturn ==
    /\ UNCHANGED frequencyVars
    /\ pc = "cumulate_loop"
    /\ Len(cumulated_power) = Len(rated_speed_vector)
    /\ capacity_factor' =
           [i \in 1..Len(cumulated_power) |->
               Quot(cumulated_power[i], ideal_cumulated_power[i])]
    /\ pc' = "cumulate_returned"
    /\ UNCHANGED <<args, error, rated_speed_vector, cumulated_power,
                   ideal_cumulated_power, optimal_rs, optimal_power>>

-----------------------------------------------------------------------------
(* optimal_rs_per_node *)

OptimalStart ==
    /\ UNCHANGED frequencyVars
    /\ pc = "start"
    /\ IF args.delta = 0
       THEN /\ pc' = "optimal_raised"
            /\ error' \in ZeroStepErrors
            /\ UNCHANGED rated_speed_vector
       ELSE /\ pc' = "optimal_loop"
            /\ rated_speed_vector' = Arange(args.min_rated_speed,
                                            args.max_rated_speed + args.delta,
                                            args.delta)
            /\ UNCHANGED error
    /\ UNCHANGED <<args, cumulated_power, ideal_cumulated_power, capacity_factor,
                   optimal_rs, optimal_power>>

OptimalStep ==
    /\ UNCHANGED frequencyVars
    /\ pc = "optimal_loop"
    /\ Len(optimal_rs) < Len(args.filtered_nodes)
    /\ LET power_per_rs == PowerPerRs(args, rated_speed_vector, Len(optimal_rs) + 1) IN
         IF power_per_rs = <<>>
         THEN \* numpy.max of an empty array raises ValueError
              /\ pc' = "optimal_raised"
              /\ error' = "ValueError"
              /\ UNCHANGED <<optimal_rs, optimal_power>>
         ELSE /\ optimal_power' = Append(optimal_power, ArrayMax(power_per_rs))
              /\ optimal_rs' = Append(optimal_rs, rated_speed_vector[ArgMax(power_per_rs)])
              /\ UNCHANGED <<pc, error>>
    /\ UNCHANGED <<args, rated_speed_vector, cumulated_power, ideal_cumulated_power,
                   capacity_factor>>

OptimalReturn ==
    /\ UNCHANGED frequencyVars
    /\ pc = "optimal_loop"
    /\ Len(optimal_rs) = Len(args.filtered_nodes)
    /\ pc' = "optimal_returned"
    /\ UNCHANGED <<args, error, rated_speed_vector, cumulated_power,
                   ideal_cumulated_power, capacity_factor, optimal_rs, optimal_power>>

-----------------------------------------------------------------------------

InitSeries ==
    /\ pc = "start"
    /\ args \in SeriesArgs
    /\ error = "none"
    /\ rated_speed_vector = <<>>
    /\ cumulated_power = <<>>
    /\ ideal_cumulated_power = <<>>
    /\ capacity_factor = <<>>
    /\ optimal_rs = <<>>
    /\ optimal_power = <<>>
    /\ minimum_ci_vector = <<>>
    /\ maximum_co_vector = <<>>
    /\ power_curves = <<>>
    /\ bins = <<>>
    /\ histograms = <<>>
    /\ frequencies = <<>>

NextSeries ==
    \/ CumulateStart
    \/ CumulateStep
    \/ CumulateReturn
    \/ OptimalStart
    \/ OptimalStep
    \/ OptimalReturn

SpecSeries == InitSeries /\ [][NextSeries]_vars

-----------------------------------------------------------------------------
(* The constant-velocity scenario: one node, every sample 1.0 m/s, rated     *)
(* speeds 0.6 .. 3.0 m/s in steps of 0.1 m/s; the speed unit is 0.1 m/s.     *)

ScenarioSamples == 4

InitScenario2 ==
    /\ pc = "start"
    /\ \E len \in 1..ScenarioSamples :
         args = [filtered_nodes |-> <<[j \in 1..len |-> 10]>>,
                 min_rated_speed |-> 6,
                 max_rated_speed |-> 30,
                 delta |-> 1,
                 coef |-> 2]
    /\ error = "none"
    /\ rated_speed_vector = <<>>
    /\ cumulated_power = <<>>
    /\ ideal_cumulated_power = <<>>
    /\ capacity_factor = <<>>
    /\ optimal_rs = <<>>
    /\ optimal_power = <<>>
    /\ minimum_ci_vector = <<>>
    /\ maximum_co_vector = <<>>
    /\ power_curves = <<>>
    /\ bins = <<>>
    /\ histograms = <<>>
    /\ frequencies = <<>>

SpecScenario2 == InitScenario2 /\ [][NextSeries]_vars

-----------------------------------------------------------------------------
(* Statements about the time-series functions *)

RECURSIVE SumOver(_, _)
SumOver(f, S) ==
    IF S = {} THEN 0
    ELSE LET x == CHOOSE y \in S : TRUE IN f[x] + SumOver(f, S \ {x})

\* the sweep points min, min + delta, ... short of max + delta
SweepCount ==
    Cardinality({k \in 0..(2 * CutInDen) :
        \/ args.delta > 0
           /\ args.min_rated_speed + k * args.delta < args.max_rated_speed + args.delta
        \/ args.delta < 0
           /\ args.min_rated_speed + k * args.delta > args.max_rated_speed + args.delta})

SweepPoint(i) == args.min_rated_speed + (i - 1) * args.delta

\* energy of one node at rated speed vr by regions: nothing below 0.3 * vr,
\* coef * v^3 on [0.3 * vr, vr), coef * vr^3 from vr on
RegionEnergy(series, vr) ==
    LET idx == 1..Len(series)
        cubic == {j \in idx : CutInNum * vr <= CutInDen * series[j] /\ series[j] < vr}
        saturated == {j \in idx : series[j] >= vr}
    IN  args.coef * SumOver([j \in idx |-> Cube(series[j])], cubic)
        + args.coef * Cube(vr) * Cardinality(saturated)

FrameEnergy(vr) ==
    SumOver([n \in 1..Len(args.filtered_nodes) |-> RegionEnergy(args.filtered_nodes[n], vr)],
            1..Len(args.filtered_nodes))

SampleCount == IF args.filtered_nodes = <<>> THEN 0 ELSE Len(args.filtered_nodes[1])

IdealEnergy(vr) == args.coef * Cube(vr) * SampleCount * Len(args.filtered_nodes)

IsRatio(q, a, b) ==
    IF b # 0 THEN q.kind = "num" /\ q.den # 0 /\ q.num * b = a * q.den
    ELSE q.kind # "num"

InUnitInterval(q) ==
    /\ q.kind = "num"
    /\ \/ q.den > 0 /\ 0 <= q.num /\ q.num <= q.den
       \/ q.den < 0 /\ q.den <= q.num /\ q.num <= 0

\* C2: cumulate_power_time_series returns, for every sweep point in sweep
\* order, the energy summed over all nodes and samples by the three-region
\* rule with cut-in 0.3 * vr and cut-out vr, and the capacity factor
\* actual / ideal with ideal = coef * vr^3 * samples * nodes.
C2_CumulatedEnergy ==
    pc = "cumulate_returned" =>
        /\ Len(cumulated_power) = SweepCount
        /\ Len(capacity_factor) = SweepCount
        /\ \A i \in 1..SweepCount :
              /\ cumulated_power[i] = FrameEnergy(SweepPoint(i))
              /\ IsRatio(capacity_factor[i], FrameEnergy(SweepPoint(i)),
                         IdealEnergy(SweepPoint(i)))

C2_Witness ==
    /\ pc = "cumulate_returned"
    /\ Len(args.filtered_nodes) = 2
    /\ Len(cumulated_power) >= 2
    /\ \E i \in 1..Len(cumulated_power), n \in 1..2, j \in 1..SampleCount :
          LET v == args.filtered_nodes[n][j] IN
            /\ CutInNum * SweepPoint(i) = CutInDen * v
            /\ v > 0
            /\ cumulated_power[i] > 0
            /\ capacity_factor[i].kind = "num"
            /\ capacity_factor[i].num < capacity_factor[i].den

\* C3: for a valid sweep (min_rated_speed <= max_rated_speed, delta > 0) every
\* returned capacity factor lies in [0, 1].
C3_CapacityFactorInUnitInterval ==
    (pc = "cumulate_returned"
        /\ args.min_rated_speed <= args.max_rated_speed /\ args.delta > 0) =>
        \A i \in 1..Len(capacity_factor) : InUnitInterval(capacity_factor[i])

\* C4 as stated: in the constant-velocity scenario the capacity factor is 1.0
\* at every rated speed of the sweep.
C4_ScenarioAllOne ==
    pc = "cumulate_returned" =>
        \A i \in 1..Len(capacity_factor) :
            capacity_factor[i].kind = "num"
            /\ capacity_factor[i].num = capacity_factor[i].den

\* C4 amended: in the constant-velocity scenario the sweep has 25 rated speeds;
\* the capacity factor is 1.0 at every rated speed <= 1.0 m/s and
\* (1.0 / rated speed)^3 at every rated speed above 1.0 m/s.
C4_ScenarioCapacityFactor ==
    pc = "cumulate_returned" =>
        /\ Len(capacity_factor) = 25
        /\ \A i \in 1..Len(capacity_factor) :
              LET vr == 6 + (i - 1)
                  q == capacity_factor[i] IN
                /\ q.kind = "num" /\ q.den > 0
                /\ vr <= 10 => q.num = q.den
                /\ vr > 10 => q.num * Cube(vr) = q.den * Cube(10)

C4_Witness ==
    /\ pc = "cumulate_returned"
    /\ Len(args.filtered_nodes[1]) = 3
    /\ Len(capacity_factor) = 25
    /\ capacity_factor[5].num = capacity_factor[5].den
    /\ 8 * capacity_factor[15].num = capacity_factor[15].den

\* C5: optimal_rs_per_node returns, for each node on its own, the maximum of
\* that node's energy over the sweep and the first (lowest-indexed) sweep value
\* attaining it, which for an increasing sweep is the smallest such value.
C5_OptimalPerNode ==
    pc = "optimal_returned" =>
        /\ Len(optimal_rs) = Len(args.filtered_nodes)
        /\ Len(optimal_power) = Len(args.filtered_nodes)
        /\ \A n \in 1..Len(args.filtered_nodes) :
              LET energy(i) == RegionEnergy(args.filtered_nodes[n], SweepPoint(i)) IN
                /\ \A i \in 1..SweepCount : energy(i) <= optimal_power[n]
                /\ \E i \in 1..SweepCount :
                      /\ energy(i) = optimal_power[n]
                      /\ optimal_rs[n] = SweepPoint(i)
                      /\ \A j \in 1..(i - 1) : energy(j) < optimal_power[n]
                /\ args.delta > 0 =>
                      \A i \in 1..SweepCount :
                          energy(i) = optimal_power[n] => optimal_rs[n] <= SweepPoint(i)

C5_Witness ==
    /\ pc = "optimal_returned"
    /\ Len(args.filtered_nodes) = 2
    /\ args.delta > 0
    /\ optimal_rs[1] # optimal_rs[2]
    /\ optimal_power[1] > 0
    /\ \E i, j \in 1..SweepCount :
          /\ i < j
          /\ SweepPoint(i) = optimal_rs[1]
          /\ RegionEnergy(args.filtered_nodes[1], SweepPoint(j)) = optimal_power[1]

-----------------------------------------------------------------------------
(* gen_power_curves and cumulate_power_frequencies.                          *)
(*                                                                           *)
(* velocities is the index of the frequency table (the upper bin edges);     *)
(* a frequency is an integer number of 1/FreqDen, so the energies of         *)
(* cumulate_power_frequencies are in 1/FreqDen of the power unit.            *)

MaxCutIn == 4
MaxDeltaSpeed == 3
MaxBins == 3
FreqDen == 2

\* numpy.round (round half to even) of n / d, for n >= 0 and d > 0
RoundHalfEven(n, d) ==
    LET q == n \div d
        r == n % d
    IN  IF 2 * r < d THEN q
        ELSE IF 2 * r > d THEN q + 1
        ELSE IF q % 2 = 0 THEN q ELSE q + 1

\* generation.py:50-51: round(vci * (100 / min_rate_pct) / delta_speed) * delta_speed
CutOut(vci, min_rate_pct, delta_speed) ==
    RoundHalfEven(vci * 100, min_rate_pct * delta_speed) * delta_speed

\* generation.py:58-63
CurvePower(coef, velocity, vci, vco) ==
    IF velocity < vci THEN 0
    ELSE IF vci <= velocity /\ velocity < vco THEN coef * Cube(velocity)
    ELSE coef * Cube(vco)

PowerCurve(a, vci, vco) ==
    [b \in 1..Len(a.velocities) |-> CurvePower(a.coef, a.velocities[b], vci, vco)]

\* numpy.array(rows).T
Transpose(rows, width) ==
    [b \in 1..width |-> [j \in 1..Len(rows) |-> rows[j][b]]]

Column(matrix, j) == [b \in 1..Len(matrix) |-> matrix[b][j]]

\* mutant: the hourly scaling of the frequencies is lost
NodeCurvePowerUnscaled(freq, hourly_data_points, curve) ==
    SumSeq([b \in 1..Len(curve) |-> freq[b] * curve[b]])

\* generation.py:80, :85: np.sum((frequency * hourly_data_points)[node] * curve)
NodeCurvePower(freq, hourly_data_points, curve) ==
    SumSeq([b \in 1..Len(curve) |-> (freq[b] * hourly_data_points) * curve[b]])

\* one node's relative frequencies over n bins: they add up to 1
Distributions(n) == {f \in [1..n -> 0..FreqDen] : SumSeq(f) = FreqDen}

CurveArgs ==
    UNION {[velocities : {[b \in 1..n |-> b * w] : w \in {1, 2}},
            frequency : [1..1 -> Distributions(n)] \cup [1..2 -> Distributions(n)],
            min_ci_speed : 1..MaxCutIn,
            min_rate_pct : {30, 50, 90},
            delta_speed : 1..MaxDeltaSpeed,
            coef : {2},
            hourly_data_points : {3}] : n \in 1..MaxBins}

GenCurvesStart ==
    /\ pc = "start"
    /\ minimum_ci_vector' = Arange(args.min_ci_speed,
                                   (args.min_ci_speed * 4) + args.delta_speed,
                                   args.delta_speed)
    /\ maximum_co_vector' =
           [i \in 1..Len(minimum_ci_vector') |->
               CutOut(minimum_ci_vector'[i], args.min_rate_pct, args.delta_speed)]
    /\ power_curves' = <<>>
    /\ pc' = "curves_loop"
    /\ UNCHANGED <<args, error, cumulated_power, bins, histograms, frequencies>>
    /\ UNCHANGED seriesVars

GenCurvesStep ==
    /\ pc = "curves_loop"
    /\ Len(power_curves) < Len(minimum_ci_vector)
    /\ LET i == Len(power_curves) + 1 IN
         power_curves' = Append(power_curves,
                                PowerCurve(args, minimum_ci_vector[i], maximum_co_vector[i]))
    /\ UNCHANGED <<pc, args, error, cumulated_power, minimum_ci_vector,
                   maximum_co_vector, bins, histograms, frequencies>>
    /\ UNCHANGED seriesVars

GenCurvesReturn ==
    /\ pc = "curves_loop"
    /\ Len(power_curves) = Len(minimum_ci_vector)
    /\ power_curves' = Transpose(power_curves, Len(args.velocities))
    /\ pc' = "curves_returned"
    /\ UNCHANGED <<args, error, cumulated_power, minimum_ci_vector,
                   maximum_co_vector, bins, histograms, frequencies>>
    /\ UNCHANGED seriesVars

\* main.py:33: the curves go on to cumulate_power_frequencies
CumulateFreqStep ==
    /\ pc = "curves_returned"
    /\ Len(cumulated_power) < Len(power_curves[1])
    /\ LET curve == Column(power_curves, Len(cumulated_power) + 1) IN
         cumulated_power' =
             Append(cumulated_power,
                    SumSeq([n \in 1..Len(args.frequency) |->
                               NodeCurvePower(args.frequency[n],
                                              args.hourly_data_points, curve)]))
    /\ UNCHANGED <<pc, args, error, minimum_ci_vector, maximum_co_vector,
                   power_curves, bins, histograms, frequencies>>
    /\ UNCHANGED seriesVars

CumulateFreqReturn ==
    /\ pc = "curves_returned"
    /\ Len(cumulated_power) = Len(power_curves[1])
    /\ pc' = "frequencies_cumulated"
    /\ UNCHANGED <<args, error, cumulated_power, minimum_ci_vector,
                   maximum_co_vector, power_curves, bins, histograms, frequencies>>
    /\ UNCHANGED seriesVars

InitCurves ==
    /\ pc = "start"
    /\ args \in CurveArgs
    /\ error = "none"
    /\ rated_speed_vector = <<>>
    /\ cumulated_power = <<>>
    /\ ideal_cumulated_power = <<>>
    /\ capacity_factor = <<>>
    /\ optimal_rs = <<>>
    /\ optimal_power = <<>>
    /\ minimum_ci_vector = <<>>
    /\ maximum_co_vector = <<>>
    /\ power_curves = <<>>
    /\ bins = <<>>
    /\ histograms = <<>>
    /\ frequencies = <<>>

NextCurves ==
    \/ GenCurvesStart
    \/ GenCurvesStep
    \/ GenCurvesReturn
    \/ CumulateFreqStep
    \/ CumulateFreqReturn

SpecCurves == InitCurves /\ [][NextCurves]_vars

-----------------------------------------------------------------------------
(* Statements about the power curves *)

CurvesGenerated == pc \in {"curves_returned", "frequencies_cumulated"}

\* C1: for every generated (vci, vco) pair and every velocity v of the index the
\* power is 0 if v < vci, coef * v^3 if vci <= v < vco, and coef * vco^3 if
\* v >= vco.
C1_ThreeRegions ==
    CurvesGenerated =>
        \A j \in 1..Len(minimum_ci_vector), b \in 1..Len(args.velocities) :
            LET v == args.velocities[b]
                vci == minimum_ci_vector[j]
                vco == maximum_co_vector[j]
                p == power_curves[b][j] IN
              /\ v < vci => p = 0
              /\ (vci <= v /\ v < vco) => p = args.coef * Cube(v)
              /\ v >= vco => p = args.coef * Cube(vco)

\* C8: the cut-in speeds are min_ci_speed, min_ci_speed + delta_speed, ... and
\* every one of them lies in [min_ci_speed, 4 * min_ci_speed].
C8_CutInWithinFourTimes ==
    CurvesGenerated =>
        \A i \in 1..Len(minimum_ci_vector) :
            /\ minimum_ci_vector[i] = args.min_ci_speed + (i - 1) * args.delta_speed
            /\ args.min_ci_speed <= minimum_ci_vector[i]
            /\ minimum_ci_vector[i] <= 4 * args.min_ci_speed

\* x is n / d rounded to a nearest integer
IsRounded(x, n, d) == 2 * x * d - d <= 2 * n /\ 2 * n <= 2 * x * d + d

\* C9: every pair has vco = round((vci * 100 / min_rate_pct) / delta_speed) *
\* delta_speed, and vci < vco.
C9_CutInBelowCutOut ==
    CurvesGenerated =>
        /\ Len(maximum_co_vector) = Len(minimum_ci_vector)
        /\ \A i \in 1..Len(minimum_ci_vector) :
              /\ \E x \in 0..(100 * (MaxCutIn + 1) * (MaxDeltaSpeed + 1)) :
                    /\ maximum_co_vector[i] = x * args.delta_speed
                    /\ IsRounded(x, minimum_ci_vector[i] * 100,
                                 args.min_rate_pct * args.delta_speed)
              /\ minimum_ci_vector[i] < maximum_co_vector[i]

\* C7: cumulate_power_frequencies returns one scalar per power curve, in the
\* order of the curves; the scalar of curve j is the sum over all nodes and all
\* bins b of (frequency[node][b] * hourly_data_points) * power_curves[b][j].
C7_CumulatedFrequencies ==
    pc = "frequencies_cumulated" =>
        /\ Len(cumulated_power) = Len(minimum_ci_vector)
        /\ \A j \in 1..Len(minimum_ci_vector) :
              LET cells == (1..Len(args.frequency)) \X (1..Len(args.velocities))
                  term == [c \in cells |->
                              (args.frequency[c[1]][c[2]] * args.hourly_data_points)
                              * power_curves[c[2]][j]] IN
                cumulated_power[j] = SumOver(term, cells)

C7_Witness ==
    /\ pc = "frequencies_cumulated"
    /\ Len(args.frequency) = 2
    /\ Len(args.velocities) >= 2
    /\ \E j, k \in 1..Len(cumulated_power) :
          /\ j < k
          /\ cumulated_power[j] > cumulated_power[k]
          /\ cumulated_power[k] > 0

-----------------------------------------------------------------------------
(* get_histograms and get_frequency *)

MaxSampleSpeed == 5
MaxBinSize == 2
MaxVelocityLimit == 3

\* mutant: the last bin is half-open like the others
InBinHalfOpen(x, edges, i) == edges[i] <= x /\ x < edges[i + 1]

\* numpy.histogram with explicit edges: bin i is [edges[i], edges[i+1]), and the
\* last bin also holds its right edge
InBin(x, edges, i) ==
    /\ edges[i] <= x
    /\ \/ x < edges[i + 1]
       \/ i = Len(edges) - 1 /\ x = edges[i + 1]

HistogramCounts(series, edges) ==
    [i \in 1..(Len(edges) - 1) |->
        Cardinality({j \in 1..Len(series) : InBin(series[j], edges, i)})]

\* generation.py:31: histograms.div(histograms.sum(axis=0), axis=1)
ColumnFrequency(counts) ==
    [i \in 1..Len(counts) |-> Quot(counts[i], SumSeq(counts))]

HistArgs ==
    [data : Frames((-1)..MaxSampleSpeed),
     bin_size : 1..MaxBinSize,
     max_velocity : 1..MaxVelocityLimit]

HistStart ==
    /\ pc = "start"
    /\ bins' = Arange(0, args.max_velocity + args.bin_size, args.bin_size)
    /\ histograms' = <<>>
    /\ pc' = "histograms_loop"
    /\ UNCHANGED <<args, error, cumulated_power, minimum_ci_vector,
                   maximum_co_vector, power_curves, frequencies>>
    /\ UNCHANGED seriesVars

HistStep ==
    /\ pc = "histograms_loop"
    /\ Len(histograms) < Len(args.data)
    /\ histograms' = Append(histograms,
                            HistogramCounts(args.data[Len(histograms) + 1], bins))
    /\ UNCHANGED <<pc, args, error, cumulated_power, minimum_ci_vector,
                   maximum_co_vector, power_curves, bins, frequencies>>
    /\ UNCHANGED seriesVars

HistReturn ==
    /\ pc = "histograms_loop"
    /\ Len(histograms) = Len(args.data)
    /\ pc' = "histograms_returned"
    /\ UNCHANGED <<args, error, cumulated_power, minimum_ci_vector,
                   maximum_co_vector, power_curves, bins, histograms, frequencies>>
    /\ UNCHANGED seriesVars

\* main.py:27: the histograms go on to get_frequency
GetFrequency ==
    /\ pc = "histograms_returned"
    /\ frequencies' = [n \in 1..Len(histograms) |-> ColumnFrequency(histograms[n])]
    /\ pc' = "frequency_returned"
    /\ UNCHANGED <<args, error, cumulated_power, minimum_ci_vector,
                   maximum_co_vector, power_curves, bins, histograms>>
    /\ UNCHANGED seriesVars

InitHist ==
    /\ pc = "start"
    /\ args \in HistArgs
    /\ error = "none"
    /\ rated_speed_vector = <<>>
    /\ cumulated_power = <<>>
    /\ ideal_cumulated_power = <<>>
    /\ capacity_factor = <<>>
    /\ optimal_rs = <<>>
    /\ optimal_power = <<>>
    /\ minimum_ci_vector = <<>>
    /\ maximum_co_vector = <<>>
    /\ power_curves = <<>>
    /\ bins = <<>>
    /\ histograms = <<>>
    /\ frequencies = <<>>

NextHist ==
    \/ HistStart
    \/ HistStep
    \/ HistReturn
    \/ GetFrequency

SpecHist == InitHist /\ [][NextHist]_vars

-----------------------------------------------------------------------------
(* Statements about the histograms and the frequencies *)

HistogramsBuilt == pc \in {"histograms_returned", "frequency_returned"}

SamplesWithin(series, low, high) ==
    Cardinality({j \in 1..Len(series) : low <= series[j] /\ series[j] <= high})

\* C6 as stated: the bin counts of a node add up to the number of its samples
\* v with 0 <= v <= max_velocity.
C6_CountsUpToMaxVelocity ==
    HistogramsBuilt =>
        \A n \in 1..Len(args.data) :
            SumSeq(histograms[n]) = SamplesWithin(args.data[n], 0, args.max_velocity)

\* the smallest multiple of bin_size that is >= max_velocity
LastEdge ==
    CHOOSE e \in 0..(args.max_velocity + args.bin_size) :
        /\ e % args.bin_size = 0
        /\ e >= args.max_velocity
        /\ e - args.bin_size < args.max_velocity

\* C6 amended: the bin counts of a node add up to the number of its samples v
\* with 0 <= v <= last edge, the last edge being the smallest multiple of
\* bin_size that is >= max_velocity (max_velocity itself when it is a multiple);
\* samples below 0 or above the last edge are counted in no bin.
C6_CountsUpToLastEdge ==
    HistogramsBuilt =>
        /\ bins[Len(bins)] = LastEdge
        /\ \A n \in 1..Len(args.data) :
              /\ Len(histograms[n]) = Len(bins) - 1
              /\ SumSeq(histograms[n]) = SamplesWithin(args.data[n], 0, LastEdge)

C6_Witness ==
    /\ pc = "histograms_returned"
    /\ args.max_velocity % args.bin_size # 0
    /\ \E n \in 1..Len(args.data) :
          /\ Len(args.data[n]) = 2
          /\ args.data[n][1] < 0
          /\ args.data[n][2] = LastEdge
          /\ SumSeq(histograms[n]) = 1

\* C10: when the counts of some node add up to zero, get_frequency ends in a
\* DivisionByZero error and never returns a table holding NaN/Inf for that node.
C10_ZeroTotalReported ==
    /\ (pc = "frequency_returned" => \A n \in 1..Len(histograms) : SumSeq(histograms[n]) # 0)
    /\ (pc = "frequency_returned" =>
           \A n \in 1..Len(frequencies) : \A i \in 1..Len(frequencies[n]) :
               frequencies[n][i].kind = "num")

-----------------------------------------------------------------------------
(* Statements about invalid rated-speed sweeps *)

InvalidSweep == args.min_rated_speed > args.max_rated_speed \/ args.delta <= 0

SweepCallEnded ==
    pc \in {"cumulate_returned", "cumulate_raised", "optimal_returned", "optimal_raised"}

\* C11: when min_rated_speed > max_rated_speed or delta <= 0, a call of
\* cumulate_power_time_series or optimal_rs_per_node ends in an EmptySweepRange
\* error; it never returns a (possibly empty) result.
C11_EmptySweepRangeReported ==
    (InvalidSweep /\ SweepCallEnded) =>
        /\ pc \in {"cumulate_raised", "optimal_raised"}
        /\ error = "EmptySweepRange"

====
